---- MODULE Spec2Model ----
(***************************************************************************)
(* Model of the telnet_server crate: the Telnet session state machine      *)
(* (src/telnet.rs), the sequence helpers (src/iter.rs) and the connection  *)
(* loops that drive a session (src/tcp.rs, src/bin/main.rs), and one       *)
(* connection thread of the first server (src/main.rs).                    *)
(*                                                                         *)
(* A u8 is a number in 0..255.  A char is a record [cp |-> n] holding its  *)
(* code point, so that Vec<char> and Vec<u8> are different values and the  *)
(* casts `next as char` and `c as u8` are explicit operators.              *)
(* An Option<T> is [some |-> FALSE] (None) or [some |-> TRUE, v |-> x].    *)
(***************************************************************************)
EXTENDS Integers, Sequences, FiniteSets, TLC

VARIABLES
    data,         \* TelnetSession.data: Vec<char>
    stream,       \* TelnetSession.stream: Vec<u8>
    state,        \* TelnetSession.state: TelnetState
    is_echoing,   \* TelnetSession.is_echoing: bool
    pre,          \* the session as it was when the last call was entered
    input,        \* the argument of the last accept_data call
    result,       \* what the last accept_data call returned
    dispatched,   \* per byte of the last call: session before, byte, fragment, session after
    op,           \* the last operation performed
    script,       \* the arguments of the accept_data calls made so far, while at most three
    arg_haystack, \* contains_sequence: the haystack it is called with
    arg_needle,   \* contains_sequence: the needle it is called with
    found,        \* contains_sequence: returned value
    server,       \* which code runs: create_tcp_server, the binary's main, or handle_client
    units         \* the threads spawned so far, one per incoming connection

sessionVars == <<data, stream, state, is_echoing, pre, input, result, dispatched, script>>
matcherVars == <<arg_haystack, arg_needle, found>>
serverVars == <<server, units>>
vars == <<sessionVars, matcherVars, serverVars, op>>

-----------------------------------------------------------------------------
(* Bounds of the model *)

\* longest data buffer a session of Spec is allowed to build
MaxData == 1
\* longest data buffer of the sessions SpecCall starts from
MaxSample == 1
\* longest chunk of arbitrary bytes SpecCall feeds in one call
MaxChunk == 2
\* longest sub-negotiation payload SpecCall feeds
MaxPayload == 2
\* longest buffer handed to the line erase in SpecErase
MaxBuffer == 4
\* longest haystack and needle handed to contains_sequence in SpecMatcher
MaxSeq == 3
\* most connections the listener of SpecServer takes
MaxConnections == 2
\* most reads one connection's thread of SpecServer makes
MaxReads == 2

-----------------------------------------------------------------------------
(* src/telnet.rs: constants *)

CHAR_ECHO == 1
CHAR_BEL == 7
CHAR_BACK_SPACE == 8
CHAR_ESCAPE == 27
CHAR_DELETE == 127
CHAR_SUB_NEGOTIATION_END == 240
CHAR_ERASE_CHARACTER == 247
CHAR_ERASE_LINE == 248
CHAR_SUB_NEGOTIATION == 250
CHAR_WILL == 251
CHAR_WONT == 252
CHAR_DO == 253
CHAR_DONT == 254
CHAR_IAC == 255

\* `b as char` for a u8: the char whose code point is b
AsChar(b) == [cp |-> b]
\* `c as u8` for a char: the code point truncated to eight bits
AsU8(c) == c.cp % 256

\* b' ' in the fake backspace
CHAR_SPACE == 32

CHARS_LINE_BREAK == <<AsChar(13), AsChar(10)>>

\* 'A' 'B' 'C' 'D' 'E' 'F' 'G' 'H' 'J' 'K' 'S' 'T' 'f' 'm' 'i' 'n' 's' 'u' 'h' 'l'
CHARS_ESCAPE_SEQUENCE_END ==
    <<AsChar(65), AsChar(66), AsChar(67), AsChar(68), AsChar(69), AsChar(70),
      AsChar(71), AsChar(72), AsChar(74), AsChar(75), AsChar(83), AsChar(84),
      AsChar(102), AsChar(109), AsChar(105), AsChar(110), AsChar(115),
      AsChar(117), AsChar(104), AsChar(108)>>

None == [some |-> FALSE]
Some(x) == [some |-> TRUE, v |-> x]

\* Vec::pop: drops the last element, a no-op on an empty vector
Pop(vec) == IF vec = <<>> THEN vec ELSE SubSeq(vec, 1, Len(vec) - 1)

\* [T]::contains
SliceContains(slice, x) == \E i \in 1..Len(slice) : slice[i] = x

-----------------------------------------------------------------------------
(* src/iter.rs *)

\* the inner `for needle_index in 0..needle_len` loop: TRUE when it runs to
\* its end, FALSE when it leaves by `continue 'outer`
RECURSIVE needle_loop(_, _, _, _)
needle_loop(haystack, needle, haystack_start, needle_index) ==
    IF needle_index >= Len(needle) THEN TRUE
    ELSE IF haystack[needle_index + haystack_start + 1] # needle[needle_index + 1]
         THEN FALSE
         ELSE needle_loop(haystack, needle, haystack_start, needle_index + 1)

\* the `'outer: for haystack_start in 0..=size_diff` loop and the final false
RECURSIVE haystack_loop(_, _, _, _)
haystack_loop(haystack, needle, haystack_start, size_diff) ==
    IF haystack_start > size_diff THEN FALSE
    ELSE IF needle_loop(haystack, needle, haystack_start, 0) THEN TRUE
         ELSE haystack_loop(haystack, needle, haystack_start + 1, size_diff)

\* contains_sequence without its empty-haystack return
contains_sequence_no_empty_guard(haystack, needle) ==
    IF Len(needle) > Len(haystack) THEN FALSE
    ELSE haystack_loop(haystack, needle, 0, Len(haystack) - Len(needle))

contains_sequence(haystack, needle) ==
    LET haystack_len == Len(haystack)
        needle_len == Len(needle)
    IN  IF needle_len > haystack_len THEN FALSE
        ELSE IF haystack_len = 0 THEN FALSE
        ELSE haystack_loop(haystack, needle, 0, haystack_len - needle_len)

\* dequeue: the first item and the vector without it, None on an empty vector
dequeue(vec) ==
    IF vec = <<>> THEN [item |-> None, vec |-> vec]
    ELSE [item |-> Some(Head(vec)), vec |-> Tail(vec)]

-----------------------------------------------------------------------------
(* src/telnet.rs: the session and its per-byte updates.  An update takes   *)
(* the session record and the byte and yields [session, out]: the session  *)
(* after the update and the Option<Vec<u8>> it returns.                    *)

\* TelnetSession::create
create == [data |-> <<>>, stream |-> <<>>, state |-> "Idle", is_echoing |-> FALSE]

\* erase_current_line that stops at a line feed, whatever precedes it
RECURSIVE erase_current_line_to_line_feed(_)
erase_current_line_to_line_feed(buffer) ==
    IF Len(buffer) < 2 THEN <<>>
    ELSE IF buffer[Len(buffer)] = CHARS_LINE_BREAK[2] THEN buffer
    ELSE erase_current_line_to_line_feed(Pop(buffer))

\* erase_current_line that pops before it tests
RECURSIVE erase_current_line_pop_first(_)
erase_current_line_pop_first(buffer) ==
    IF Len(Pop(buffer)) < 2 THEN <<>>
    ELSE IF contains_sequence(SubSeq(buffer, Len(buffer) - 2, Len(buffer) - 1),
                              CHARS_LINE_BREAK)
         THEN Pop(buffer)
         ELSE erase_current_line_pop_first(Pop(buffer))

RECURSIVE erase_current_line(_)
erase_current_line(buffer) ==
    IF Len(buffer) < 2 THEN <<>>
    ELSE IF contains_sequence(SubSeq(buffer, Len(buffer) - 1, Len(buffer)),
                              CHARS_LINE_BREAK)
         THEN buffer
         ELSE erase_current_line(Pop(buffer))

\* an Idle update whose line erase is echoed like a character erase
update_session_idle_erase_line_echoes(session, next) ==
    IF next = CHAR_IAC
    THEN [session |-> [session EXCEPT !.state = "Command"], out |-> None]
    ELSE IF next \in {CHAR_DELETE, CHAR_BACK_SPACE, CHAR_ERASE_CHARACTER}
    THEN [session |-> [session EXCEPT !.data = Pop(@)],
          out |-> IF session.is_echoing
                  THEN Some(<<CHAR_BACK_SPACE, CHAR_SPACE, CHAR_BACK_SPACE>>)
                  ELSE None]
    ELSE IF next = CHAR_ERASE_LINE
    THEN [session |-> [session EXCEPT !.data = erase_current_line(@)],
          out |-> IF session.is_echoing
                  THEN Some(<<CHAR_BACK_SPACE, CHAR_SPACE, CHAR_BACK_SPACE>>)
                  ELSE None]
    ELSE IF next = CHAR_ESCAPE
    THEN [session |-> [session EXCEPT !.state = "AnsiEscapeSequence"], out |-> None]
    ELSE [session |-> [session EXCEPT !.data = Append(@, AsChar(next))],
          out |-> IF session.is_echoing THEN Some(<<next>>) ELSE None]

\* an Idle update that keeps the escape byte as text when it starts a sequence
update_session_idle_keeps_escape(session, next) ==
    IF next = CHAR_IAC
    THEN [session |-> [session EXCEPT !.state = "Command"], out |-> None]
    ELSE IF next \in {CHAR_DELETE, CHAR_BACK_SPACE, CHAR_ERASE_CHARACTER}
    THEN [session |-> [session EXCEPT !.data = Pop(@)],
          out |-> IF session.is_echoing
                  THEN Some(<<CHAR_BACK_SPACE, CHAR_SPACE, CHAR_BACK_SPACE>>)
                  ELSE None]
    ELSE IF next = CHAR_ERASE_LINE
    THEN [session |-> [session EXCEPT !.data = erase_current_line(@)], out |-> None]
    ELSE IF next = CHAR_ESCAPE
    THEN [session |-> [session EXCEPT !.state = "AnsiEscapeSequence",
                                      !.data = Append(@, AsChar(next))],
          out |-> None]
    ELSE [session |-> [session EXCEPT !.data = Append(@, AsChar(next))],
          out |-> IF session.is_echoing THEN Some(<<next>>) ELSE None]

\* an Idle update that echoes text whether or not the session echoes
update_session_idle_echoes_always(session, next) ==
    IF next = CHAR_IAC
    THEN [session |-> [session EXCEPT !.state = "Command"], out |-> None]
    ELSE IF next \in {CHAR_DELETE, CHAR_BACK_SPACE, CHAR_ERASE_CHARACTER}
    THEN [session |-> [session EXCEPT !.data = Pop(@)],
          out |-> IF session.is_echoing
                  THEN Some(<<CHAR_BACK_SPACE, CHAR_SPACE, CHAR_BACK_SPACE>>)
                  ELSE None]
    ELSE IF next = CHAR_ERASE_LINE
    THEN [session |-> [session EXCEPT !.data = erase_current_line(@)], out |-> None]
    ELSE IF next = CHAR_ESCAPE
    THEN [session |-> [session EXCEPT !.state = "AnsiEscapeSequence"], out |-> None]
    ELSE [session |-> [session EXCEPT !.data = Append(@, AsChar(next))],
          out |-> Some(<<next>>)]

\* an Idle update whose erase removes the first character of data
update_session_idle_erases_first(session, next) ==
    IF next = CHAR_IAC
    THEN [session |-> [session EXCEPT !.state = "Command"], out |-> None]
    ELSE IF next \in {CHAR_DELETE, CHAR_BACK_SPACE, CHAR_ERASE_CHARACTER}
    THEN [session |-> [session EXCEPT !.data = IF @ = <<>> THEN <<>> ELSE Tail(@)],
          out |-> IF session.is_echoing
                  THEN Some(<<CHAR_BACK_SPACE, CHAR_SPACE, CHAR_BACK_SPACE>>)
                  ELSE None]
    ELSE IF next = CHAR_ERASE_LINE
    THEN [session |-> [session EXCEPT !.data = erase_current_line(@)], out |-> None]
    ELSE IF next = CHAR_ESCAPE
    THEN [session |-> [session EXCEPT !.state = "AnsiEscapeSequence"], out |-> None]
    ELSE [session |-> [session EXCEPT !.data = Append(@, AsChar(next))],
          out |-> IF session.is_echoing THEN Some(<<next>>) ELSE None]

update_session_idle(session, next) ==
    IF next = CHAR_IAC
    THEN [session |-> [session EXCEPT !.state = "Command"], out |-> None]
    ELSE IF next \in {CHAR_DELETE, CHAR_BACK_SPACE, CHAR_ERASE_CHARACTER}
    THEN [session |-> [session EXCEPT !.data = Pop(@)],
          out |-> IF session.is_echoing
                  THEN Some(<<CHAR_BACK_SPACE, CHAR_SPACE, CHAR_BACK_SPACE>>)
                  ELSE None]
    ELSE IF next = CHAR_ERASE_LINE
    THEN [session |-> [session EXCEPT !.data = erase_current_line(@)], out |-> None]
    ELSE IF next = CHAR_ESCAPE
    THEN [session |-> [session EXCEPT !.state = "AnsiEscapeSequence"], out |-> None]
    ELSE [session |-> [session EXCEPT !.data = Append(@, AsChar(next))],
          out |-> IF session.is_echoing THEN Some(<<next>>) ELSE None]

\* a Command update that gives up on an unknown verb and returns to Idle
update_session_command_gives_up(session, next) ==
    [session |->
        IF next = CHAR_WILL THEN [session EXCEPT !.state = "CommandWill"]
        ELSE IF next = CHAR_WONT THEN [session EXCEPT !.state = "CommandWont"]
        ELSE IF next = CHAR_DO THEN [session EXCEPT !.state = "CommandDo"]
        ELSE IF next = CHAR_DONT THEN [session EXCEPT !.state = "CommandDont"]
        ELSE IF next = CHAR_SUB_NEGOTIATION
             THEN [session EXCEPT !.state = "SubNegotiation"]
        ELSE [session EXCEPT !.state = "Idle"],
     out |-> None]

update_session_command(session, next) ==
    [session |->
        IF next = CHAR_WILL THEN [session EXCEPT !.state = "CommandWill"]
        ELSE IF next = CHAR_WONT THEN [session EXCEPT !.state = "CommandWont"]
        ELSE IF next = CHAR_DO THEN [session EXCEPT !.state = "CommandDo"]
        ELSE IF next = CHAR_DONT THEN [session EXCEPT !.state = "CommandDont"]
        ELSE IF next = CHAR_SUB_NEGOTIATION
             THEN [session EXCEPT !.state = "SubNegotiation"]
        ELSE session,
     out |-> None]

\* a WILL update that takes the peer's WILL ECHO as a reason to echo
update_session_will_obeys_echo(session, next) ==
    [session |-> [session EXCEPT !.state = "Idle",
                                 !.is_echoing = IF next = CHAR_ECHO THEN TRUE ELSE @],
     out |-> None]

update_session_will(session, next) ==
    [session |-> [session EXCEPT !.state = "Idle"], out |-> None]

update_session_wont(session, next) ==
    [session |-> [session EXCEPT !.state = "Idle"], out |-> None]

\* update_session_do that answers WILL ECHO without turning echoing on
update_session_do_no_flag(session, next) ==
    [session |-> [session EXCEPT !.state = "Idle"],
     out |-> IF next = CHAR_ECHO THEN Some(<<CHAR_IAC, CHAR_WILL, CHAR_ECHO>>)
             ELSE Some(<<CHAR_IAC, CHAR_WONT, next>>)]

\* update_session_do that ignores the options it does not support
update_session_do_silent(session, next) ==
    IF next = CHAR_ECHO
    THEN [session |-> [session EXCEPT !.state = "Idle", !.is_echoing = TRUE],
          out |-> Some(<<CHAR_IAC, CHAR_WILL, CHAR_ECHO>>)]
    ELSE [session |-> [session EXCEPT !.state = "Idle"], out |-> None]

update_session_do(session, next) ==
    IF next = CHAR_ECHO
    THEN [session |-> [session EXCEPT !.state = "Idle", !.is_echoing = TRUE],
          out |-> Some(<<CHAR_IAC, CHAR_WILL, CHAR_ECHO>>)]
    ELSE [session |-> [session EXCEPT !.state = "Idle"],
          out |-> Some(<<CHAR_IAC, CHAR_WONT, next>>)]

\* update_session_dont that refuses but leaves echoing on
update_session_dont_keeps_echo(session, next) ==
    [session |-> [session EXCEPT !.state = "Idle"],
     out |-> Some(<<CHAR_IAC, CHAR_WONT, next>>)]

\* update_session_dont that turns echoing off whatever the option
update_session_dont_any_option(session, next) ==
    [session |-> [session EXCEPT !.state = "Idle", !.is_echoing = FALSE],
     out |-> Some(<<CHAR_IAC, CHAR_WONT, next>>)]

update_session_dont(session, next) ==
    [session |-> [session EXCEPT !.state = "Idle",
                                 !.is_echoing = IF next = CHAR_ECHO THEN FALSE ELSE @],
     out |-> Some(<<CHAR_IAC, CHAR_WONT, next>>)]

\* update_session_sub_negotiation that takes IAC for the end of the payload
update_session_sub_negotiation_ends_on_iac(session, next) ==
    [session |-> IF next \in {CHAR_SUB_NEGOTIATION_END, CHAR_IAC}
                 THEN [session EXCEPT !.state = "Idle"]
                 ELSE session,
     out |-> None]

update_session_sub_negotiation(session, next) ==
    [session |-> IF next = CHAR_SUB_NEGOTIATION_END
                 THEN [session EXCEPT !.state = "Idle"]
                 ELSE session,
     out |-> None]

\* an escape sequence update that takes any ASCII letter for the end
update_session_escape_sequence_ends_on_letter(session, next) ==
    IF ~(next \in 65..90 \/ next \in 97..122)
    THEN [session |-> session, out |-> None]
    ELSE [session |-> [session EXCEPT !.state = "Idle"], out |-> Some(<<CHAR_BEL>>)]

update_session_escape_sequence(session, next) ==
    IF ~SliceContains(CHARS_ESCAPE_SEQUENCE_END, AsChar(next))
    THEN [session |-> session, out |-> None]
    ELSE [session |-> [session EXCEPT !.state = "Idle"], out |-> Some(<<CHAR_BEL>>)]

\* the `match self.state` of accept_data
dispatch(session, next) ==
    CASE session.state = "Idle" -> update_session_idle(session, next)
      [] session.state = "Command" -> update_session_command(session, next)
      [] session.state = "CommandWill" -> update_session_will(session, next)
      [] session.state = "CommandWont" -> update_session_wont(session, next)
      [] session.state = "CommandDo" -> update_session_do(session, next)
      [] session.state = "CommandDont" -> update_session_dont(session, next)
      [] session.state = "SubNegotiation" -> update_session_sub_negotiation(session, next)
      [] session.state = "AnsiEscapeSequence" -> update_session_escape_sequence(session, next)

\* the `while let Some(next) = dequeue(&mut self.stream)` loop of accept_data;
\* log records, for each byte taken, the session the iteration started from,
\* the byte, the fragment its update returned and the session it left
RECURSIVE accept_loop(_, _, _)
accept_loop(session, response, log) ==
    LET d == dequeue(session.stream)
    IN  IF ~d.item.some THEN [session |-> session, response |-> response, log |-> log]
        ELSE LET next == d.item.v
                 r == dispatch([session EXCEPT !.stream = d.vec], next)
             IN  accept_loop(r.session,
                             IF r.out.some THEN response \o r.out.v ELSE response,
                             Append(log, [before |-> session, next |-> next,
                                          out |-> r.out, after |-> r.session]))

\* accept_data that returns Some(response) even when response is empty
accept_data_always_some(session, bytes) ==
    LET r == accept_loop([session EXCEPT !.stream = @ \o bytes], <<>>, <<>>)
    IN  [session |-> r.session, out |-> Some(r.response), log |-> r.log]

\* accept_data that starts every call from state Idle
accept_data_forgets_state(session, bytes) ==
    LET r == accept_loop([session EXCEPT !.stream = @ \o bytes, !.state = "Idle"],
                         <<>>, <<>>)
    IN  [session |-> r.session,
         out |-> IF r.response # <<>> THEN Some(r.response) ELSE None,
         log |-> r.log]

\* TelnetSession::accept_data: [session, out, log]
accept_data(session, bytes) ==
    LET r == accept_loop([session EXCEPT !.stream = @ \o bytes], <<>>, <<>>)
    IN  [session |-> r.session,
         out |-> IF r.response # <<>> THEN Some(r.response) ELSE None,
         log |-> r.log]

\* TelnetSession::get_data_buffer
get_data_buffer(session) == session.data

\* a clear that also drops what the parser is in the middle of
clear_data_buffer_resets_state(session) ==
    [session EXCEPT !.data = <<>>, !.state = "Idle"]

\* TelnetSession::clear_data_buffer
clear_data_buffer(session) == [session EXCEPT !.data = <<>>]


-----------------------------------------------------------------------------
(* Input sets *)

\* sequences over S of length 0..n
SeqsUpTo(S, n) == UNION {[1..k -> S] : k \in 0..n}

\* every u8
U8 == 0..255

\* the bytes idle text is made of besides the control bytes: an ordinary byte
\* is one update_session_idle appends to data
IsOrdinary(b) ==
    b \notin {CHAR_IAC, CHAR_DELETE, CHAR_BACK_SPACE, CHAR_ERASE_CHARACTER,
              CHAR_ERASE_LINE, CHAR_ESCAPE}

\* the bytes fed one at a time in Spec: every byte the code compares against,
\* a line feed, the letter 'A' (also an escape sequence terminator) and the
\* letter 'c' (an option and a letter the code knows nothing about)
Bytes ==
    {CHAR_IAC, CHAR_WILL, CHAR_WONT, CHAR_DO, CHAR_DONT, CHAR_SUB_NEGOTIATION,
     CHAR_SUB_NEGOTIATION_END, CHAR_ECHO, CHAR_BACK_SPACE, CHAR_ERASE_LINE,
     CHAR_ESCAPE, 10, 65, 99}

\* IAC <verb> <option> in one chunk
Negotiations(options) ==
    {<<CHAR_IAC, verb, o>> : verb \in {CHAR_DO, CHAR_DONT}, o \in options}

\* IAC SB <payload> SE in one chunk
SubNegotiations(payloads) ==
    {<<CHAR_IAC, CHAR_SUB_NEGOTIATION>> \o p \o <<CHAR_SUB_NEGOTIATION_END>> :
        p \in payloads}

\* the chunks of the documented examples, and two longer mixed ones
Examples ==
    {<<CHAR_IAC, CHAR_DO, CHAR_ECHO>>,
     <<CHAR_IAC, CHAR_DONT, CHAR_ECHO>>,
     <<CHAR_IAC, CHAR_DO, 99>>,
     <<CHAR_IAC, CHAR_SUB_NEGOTIATION, 34, 1, CHAR_IAC, CHAR_SUB_NEGOTIATION_END>>,
     <<CHAR_IAC, CHAR_DO, CHAR_ECHO, 65, CHAR_BACK_SPACE>>,
     <<CHAR_ESCAPE, 91, 65, CHAR_IAC, CHAR_WILL, CHAR_ECHO>>}

\* what Spec feeds to accept_data in one call
Inputs ==
    {<<b>> : b \in Bytes} \cup Negotiations({CHAR_ECHO, 99, CHAR_IAC}) \cup Examples

\* what SpecCall feeds to accept_data in its one call
CallInputs ==
    {<<b>> : b \in U8}
    \cup Negotiations(U8)
    \cup SeqsUpTo(Bytes, MaxChunk)
    \cup SubNegotiations(SeqsUpTo({CHAR_IAC, CHAR_ECHO, 34, 65}, MaxPayload))
    \cup Examples

\* the text SpecCall's sessions have gathered
SampleData == SeqsUpTo({AsChar(65), AsChar(13), AsChar(10)}, MaxSample)

TelnetStates ==
    {"Idle", "Command", "CommandWill", "CommandWont", "CommandDo", "CommandDont",
     "SubNegotiation", "AnsiEscapeSequence"}

\* the buffers SpecErase starts from: short ones over 'a', CR, LF and the two
\* of the unit test
EraseBuffers ==
    SeqsUpTo({AsChar(97), AsChar(13), AsChar(10)}, MaxBuffer)
    \cup {<<AsChar(97), AsChar(98), AsChar(99), AsChar(13), AsChar(10),
            AsChar(100), AsChar(101), AsChar(102)>>,
          <<AsChar(97), AsChar(98), AsChar(99), AsChar(100), AsChar(101),
            AsChar(102)>>}

-----------------------------------------------------------------------------
(* The session driven through its public methods *)

\* the session held in the variables
Session == [data |-> data, stream |-> stream, state |-> state, is_echoing |-> is_echoing]

\* the script of a session that has seen more than three calls, or a clear
LongScript == <<<<>>, <<>>, <<>>, <<>>>>

\* no call of contains_sequence, no server
MatcherIdle ==
    /\ arg_haystack = <<>>
    /\ arg_needle = <<>>
    /\ found = FALSE
    /\ server = "none"
    /\ units = <<>>

\* the variables hold session `s`, on which nothing has been called yet
Holding(s, how) ==
    /\ data = s.data
    /\ stream = s.stream
    /\ state = s.state
    /\ is_echoing = s.is_echoing
    /\ pre = s
    /\ input = <<>>
    /\ result = None
    /\ dispatched = <<>>
    /\ op = how

\* one call of accept_data(bytes) on the session
AcceptData(bytes) ==
    \E r \in {accept_data(Session, bytes)} :
        /\ data' = r.session.data
        /\ stream' = r.session.stream
        /\ state' = r.session.state
        /\ is_echoing' = r.session.is_echoing
        /\ pre' = Session
        /\ input' = bytes
        /\ result' = r.out
        /\ dispatched' = r.log
        /\ op' = "accept_data"
        /\ script' = IF Len(script) < 3
                     THEN Append(script, bytes)
                     ELSE LongScript
        /\ UNCHANGED <<matcherVars, serverVars>>

\* one call of clear_data_buffer on the session
ClearDataBuffer ==
    \E s \in {clear_data_buffer(Session)} :
        /\ data' = s.data
        /\ stream' = s.stream
        /\ state' = s.state
        /\ is_echoing' = s.is_echoing
        /\ pre' = Session
        /\ input' = <<>>
        /\ result' = None
        /\ dispatched' = <<>>
        /\ op' = "clear_data_buffer"
        /\ script' = LongScript
        /\ UNCHANGED <<matcherVars, serverVars>>

\* the data the call would leave fits the model's bound
Fits(bytes) == Len(accept_data(Session, bytes).session.data) <= MaxData

Init ==
    /\ Holding(create, "create")
    /\ script = <<>>
    /\ MatcherIdle

Feed == \E bytes \in Inputs : Fits(bytes) /\ AcceptData(bytes)

Next ==
    \/ Feed
    \/ ClearDataBuffer

\* a session from its creation on, under any sequence of calls
Spec == Init /\ [][Next]_vars

-----------------------------------------------------------------------------
(* One call of accept_data on a session that earlier calls left in any     *)
(* parser state, with either echo mode and some text gathered              *)

InitCall ==
    /\ \E d \in SampleData, st \in TelnetStates, e \in BOOLEAN :
          Holding([data |-> d, stream |-> <<>>, state |-> st, is_echoing |-> e],
                  "earlier calls")
    /\ script = <<>>
    /\ MatcherIdle

CallOnce ==
    /\ op = "earlier calls"
    /\ \E bytes \in CallInputs : AcceptData(bytes)

NextCall == CallOnce

SpecCall == InitCall /\ [][NextCall]_vars

-----------------------------------------------------------------------------
(* The line erase on a session that has gathered some text *)

InitErase ==
    /\ \E d \in EraseBuffers, e \in BOOLEAN :
          Holding([data |-> d, stream |-> <<>>, state |-> "Idle", is_echoing |-> e],
                  "earlier calls")
    /\ script = <<>>
    /\ MatcherIdle

EraseLine == AcceptData(<<CHAR_ERASE_LINE>>)

NextErase == EraseLine

SpecErase == InitErase /\ [][NextErase]_vars

-----------------------------------------------------------------------------
(* contains_sequence on any two short sequences *)

InitMatcher ==
    /\ Holding(create, "create")
    /\ script = <<>>
    /\ arg_haystack \in SeqsUpTo({1, 2}, MaxSeq)
    /\ arg_needle \in SeqsUpTo({1, 2}, MaxSeq)
    /\ found = FALSE
    /\ server = "none"
    /\ units = <<>>

ContainsSequence ==
    /\ op = "create"
    /\ found' = contains_sequence(arg_haystack, arg_needle)
    /\ op' = "contains_sequence"
    /\ UNCHANGED <<sessionVars, serverVars, arg_haystack, arg_needle>>

NextMatcher == ContainsSequence

SpecMatcher == InitMatcher /\ [][NextMatcher]_vars

-----------------------------------------------------------------------------
(* src/tcp.rs and src/bin/main.rs: the accept loop and the thread it spawns *)
(* for each incoming connection.  server says which of the two runs:        *)
(* create_tcp_server, whose handler is any TcpStreamHandler, or the         *)
(* binary's main, whose handler is a TelnetSession followed by              *)
(* generate_message_response.  A thread is a record:                        *)
(*   pc        arrived (the connection waits for listener.incoming()),      *)
(*             spawned, read, handle, write or done                         *)
(*   ok        whether the incoming stream is Ok                            *)
(*   handler   the TelnetSession (main) or the opaque handler               *)
(*   chunk     &buffer[..read_bytes], from the read to the handler's call   *)
(*   response  the bytes about to be written, until write_all returns       *)
(*   written   the bytes of the write_all calls that returned Ok            *)
(*   last_read the byte count of the last read, None before the first and   *)
(*             after a failed one                                           *)
(*   received  the chunks main's thread has read, in order                  *)
(*   reads, handled, writes   how many reads returned, how many times the   *)
(*             handler was called, how many times write_all was called      *)
(*   shutdown  whether stream.shutdown was called                           *)

MAX_MESSAGE_SIZE == 4096

\* "You sent: "
YOU_SENT == <<89, 111, 117, 32, 115, 101, 110, 116, 58, 32>>

\* the opaque handler build_tcp_stream_handler returns
OpaqueHandler == [data |-> <<>>, stream |-> <<>>, state |-> "opaque", is_echoing |-> FALSE]

\* what one read can deliver: a letter, or IAC DO ECHO and a line feed
ReadChunks == {<<65>>, <<CHAR_IAC, CHAR_DO, CHAR_ECHO, 10>>}

\* n bytes, all the letter A
Letters(n) == [k \in 1..n |-> 65]

\* what an opaque handler can answer
HandlerAnswers == {None, Some(<<CHAR_BEL>>)}

RECURSIVE MapAsU8(_)
MapAsU8(chars) ==
    IF chars = <<>> THEN <<>> ELSE <<AsU8(Head(chars))>> \o MapAsU8(Tail(chars))

\* generate_message_response: [session, out]
generate_message_response(telnet_session) ==
    LET message == MapAsU8(get_data_buffer(telnet_session))
    IN  IF message # <<>> /\ message[Len(message)] = 10
        THEN [session |-> clear_data_buffer(telnet_session),
              out |-> Some(YOU_SENT \o message \o <<13, 10>>)]
        ELSE [session |-> telnet_session, out |-> None]

\* the body of main's loop between the read and the write: the new session
\* and the response vector
main_respond(telnet_session, chunk) ==
    LET a == accept_data(telnet_session, chunk)
        g == generate_message_response(a.session)
    IN  [session |-> g.session,
         response |-> (IF a.out.some THEN a.out.v ELSE <<>>)
                      \o (IF g.out.some THEN g.out.v ELSE <<>>)]

\* a peer connects: the connection queues up for listener.incoming(), which
\* will yield it as an Ok or an Err stream
Arrive(stream_ok) ==
    /\ Len(units) < MaxConnections
    /\ units' = Append(units,
          [pc |-> "arrived", ok |-> stream_ok, handler |-> OpaqueHandler,
           chunk |-> <<>>, response |-> <<>>, written |-> <<>>,
           last_read |-> None, received |-> <<>>, reads |-> 0, handled |-> 0,
           writes |-> 0, shutdown |-> FALSE])
    /\ UNCHANGED <<server, sessionVars, matcherVars, op>>

\* a listener that serves each connection itself, to its end, before it
\* takes the next one
Spawn_serves_inline(i) ==
    /\ units[i].pc = "arrived"
    /\ \A j \in 1..(i - 1) : units[j].pc = "done"
    /\ units' = [units EXCEPT ![i] = [@ EXCEPT !.pc = "spawned"]]
    /\ UNCHANGED <<server, sessionVars, matcherVars, op>>

\* listener.incoming() yields the connection that has waited longest, and
\* the loop body spawns its thread
Spawn(i) ==
    /\ units[i].pc = "arrived"
    /\ \A j \in 1..(i - 1) : units[j].pc # "arrived"
    /\ units' = [units EXCEPT ![i] = [@ EXCEPT !.pc = "spawned"]]
    /\ UNCHANGED <<server, sessionVars, matcherVars, op>>

\* the thread starts: it returns on an Err stream, or builds its handler
UnitStart(i) ==
    /\ units[i].pc = "spawned"
    /\ units' = [units EXCEPT ![i] =
          IF ~@.ok THEN [@ EXCEPT !.pc = "done"]
          ELSE [@ EXCEPT !.pc = "read",
                         !.handler = IF server = "main" THEN create ELSE OpaqueHandler]]
    /\ UNCHANGED <<server, sessionVars, matcherVars, op>>

\* a read loop without the Ok(0) arm: the empty slice goes to the handler
UnitReadClosed_as_bytes(i) ==
    /\ units[i].pc = "read"
    /\ units[i].reads < MaxReads
    /\ units' = [units EXCEPT ![i] =
          [@ EXCEPT !.pc = "handle", !.last_read = Some(0), !.reads = @ + 1,
                    !.chunk = <<>>]]
    /\ UNCHANGED <<server, sessionVars, matcherVars, op>>

\* stream.read returns Ok(0): shutdown, return
UnitReadClosed(i) ==
    /\ units[i].pc = "read"
    /\ units[i].reads < MaxReads
    /\ units' = [units EXCEPT ![i] =
          [@ EXCEPT !.pc = "done", !.shutdown = TRUE, !.last_read = Some(0),
                    !.reads = @ + 1, !.chunk = <<>>]]
    /\ UNCHANGED <<server, sessionVars, matcherVars, op>>

\* stream.read returns Ok(c), c > 0, with the bytes `bytes` in the buffer
UnitReadBytes(i, bytes) ==
    /\ units[i].pc = "read"
    /\ units[i].reads < MaxReads
    /\ Len(bytes) > 0 /\ Len(bytes) <= MAX_MESSAGE_SIZE
    /\ units' = [units EXCEPT ![i] =
          [@ EXCEPT !.pc = "handle", !.last_read = Some(Len(bytes)),
                    !.reads = @ + 1, !.chunk = bytes,
                    !.received = IF server = "main" THEN Append(@, bytes) ELSE @]]
    /\ UNCHANGED <<server, sessionVars, matcherVars, op>>

\* a read error that ends every thread
UnitReadFailed_ends_all(i) ==
    /\ units[i].pc = "read"
    /\ units[i].reads < MaxReads
    /\ units' = [j \in DOMAIN units |->
          IF j = i
          THEN [units[j] EXCEPT !.pc = "done", !.last_read = None,
                                !.reads = @ + 1, !.chunk = <<>>]
          ELSE [units[j] EXCEPT !.pc = "done"]]
    /\ UNCHANGED <<server, sessionVars, matcherVars, op>>

\* stream.read returns Err: return
UnitReadFailed(i) ==
    /\ units[i].pc = "read"
    /\ units[i].reads < MaxReads
    /\ units' = [units EXCEPT ![i] =
          [@ EXCEPT !.pc = "done", !.last_read = None, !.reads = @ + 1,
                    !.chunk = <<>>]]
    /\ UNCHANGED <<server, sessionVars, matcherVars, op>>

\* a loop that goes back to the read without writing the handler's answer
UnitAccept_skips_write(i, answer) ==
    /\ server = "create_tcp_server"
    /\ units[i].pc = "handle"
    /\ units' = [units EXCEPT ![i] =
          [@ EXCEPT !.pc = "read",
                    !.response = IF answer.some THEN answer.v ELSE <<>>,
                    !.chunk = <<>>,
                    !.handled = @ + 1]]
    /\ UNCHANGED <<server, sessionVars, matcherVars, op>>

\* create_tcp_server: stream_handler.accept(&buffer[..read_bytes]) answers
UnitAccept(i, answer) ==
    /\ server = "create_tcp_server"
    /\ units[i].pc = "handle"
    /\ units' = [units EXCEPT ![i] =
          [@ EXCEPT !.pc = IF answer.some THEN "write" ELSE "read",
                    !.response = IF answer.some THEN answer.v ELSE <<>>,
                    !.chunk = <<>>,
                    !.handled = @ + 1]]
    /\ UNCHANGED <<server, sessionVars, matcherVars, op>>

\* a main whose threads all feed the session of the first thread, once that
\* thread has one
UnitRespond_shared_session(i) ==
    /\ server = "main"
    /\ units[i].pc = "handle"
    /\ \E r \in {main_respond(IF units[1].handler.state = "opaque"
                               THEN units[i].handler ELSE units[1].handler,
                               units[i].chunk)} :
          units' = [units EXCEPT ![i] =
              [@ EXCEPT !.pc = IF r.response # <<>> THEN "write" ELSE "read",
                        !.response = r.response,
                        !.chunk = <<>>,
                        !.handler = r.session,
                        !.handled = @ + 1]]
    /\ UNCHANGED <<server, sessionVars, matcherVars, op>>

\* main: accept_data, then generate_message_response
UnitRespond(i) ==
    /\ server = "main"
    /\ units[i].pc = "handle"
    /\ \E r \in {main_respond(units[i].handler, units[i].chunk)} :
          units' = [units EXCEPT ![i] =
              [@ EXCEPT !.pc = IF r.response # <<>> THEN "write" ELSE "read",
                        !.response = r.response,
                        !.chunk = <<>>,
                        !.handler = r.session,
                        !.handled = @ + 1]]
    /\ UNCHANGED <<server, sessionVars, matcherVars, op>>

\* stream.write_all(response) returns Ok: back to the read
UnitWrite(i) ==
    /\ units[i].pc = "write"
    /\ units' = [units EXCEPT ![i] =
          [@ EXCEPT !.pc = "read", !.written = @ \o units[i].response,
                    !.response = <<>>, !.writes = @ + 1]]
    /\ UNCHANGED <<server, sessionVars, matcherVars, op>>

\* stream.write_all(response) returns Err: return
UnitWriteFailed(i) ==
    /\ units[i].pc = "write"
    /\ units' = [units EXCEPT ![i] =
          [@ EXCEPT !.pc = "done", !.response = <<>>, !.writes = @ + 1]]
    /\ UNCHANGED <<server, sessionVars, matcherVars, op>>

InitServer ==
    /\ Holding(create, "create")
    /\ script = <<>>
    /\ arg_haystack = <<>>
    /\ arg_needle = <<>>
    /\ found = FALSE
    /\ server \in {"create_tcp_server", "main"}
    /\ units = <<>>

Arrives == \E stream_ok \in BOOLEAN : Arrive(stream_ok)
Accepts == \E i \in DOMAIN units : Spawn(i)
Starts == \E i \in DOMAIN units : UnitStart(i)
ReadsClosed == \E i \in DOMAIN units : UnitReadClosed(i)
ReadsBytes == \E i \in DOMAIN units : \E bytes \in ReadChunks : UnitReadBytes(i, bytes)
ReadsFailed == \E i \in DOMAIN units : UnitReadFailed(i)
HandlerAccepts ==
    \E i \in DOMAIN units : \E answer \in HandlerAnswers : UnitAccept(i, answer)
Responds == \E i \in DOMAIN units : UnitRespond(i)
Writes == \E i \in DOMAIN units : UnitWrite(i)
WritesFailed == \E i \in DOMAIN units : UnitWriteFailed(i)

NextServer ==
    \/ Arrives
    \/ Accepts
    \/ Starts
    \/ ReadsClosed
    \/ ReadsBytes
    \/ ReadsFailed
    \/ HandlerAccepts
    \/ Responds
    \/ Writes
    \/ WritesFailed

\* the listener and its threads, under any interleaving
SpecServer == InitServer /\ [][NextServer]_vars

InitTcp == InitServer /\ server = "create_tcp_server"

NextTcp ==
    \/ Arrives
    \/ Accepts
    \/ Starts
    \/ ReadsClosed
    \/ ReadsBytes
    \/ ReadsFailed
    \/ HandlerAccepts
    \/ Writes
    \/ WritesFailed

\* create_tcp_server with a listener that gets back to listener.incoming()
\* and spawned threads that get to run; peers may stay silent for ever, so
\* no read has to return
SpecServerFair ==
    InitTcp /\ [][NextTcp]_vars /\ WF_vars(Accepts) /\ WF_vars(Starts)


-----------------------------------------------------------------------------
(* src/main.rs: the first server.  main spawns one thread per incoming      *)
(* connection, and the thread runs handle_client: a handshake, then for     *)
(* each message an inner loop of reads into a 100-byte buffer that ends at   *)
(* the first read shorter than the buffer, then handle_command or           *)
(* handle_content.  Modelled is one such thread, units[1], from the call of  *)
(* handle_client on; server is "handle_client".  The thread is a record:     *)
(*   pc        handshake, read, handle, write or done                       *)
(*   id        connection_id                                                *)
(*   message   the bytes of the message being read, until the thread ends   *)
(*   response  the bytes handle_command or handle_content is writing        *)
(*   last_read the byte count of the last read, None before the first and   *)
(*             after a failed one                                           *)
(*   shutdown  whether stream.shutdown was called                           *)
(*   outcome   running, or what handle_client returned: Ok, OutOfMemory,    *)
(*             or the Err of a read, a write or a shutdown                  *)

CLIENT_MAX_MESSAGE_SIZE == 4096
CLIENT_BUFFER_LEN == 100
CONTROL_CHAR_INTERPRET_AS_COMMAND == 255
COMMAND_IAC_DO_GA == <<255, 253, 3>>
COMMAND_IAC_WONT_GA == <<255, 252, 3>>
HANDSHAKE_COMMAND == <<255, 253, 34, 255, 250, 34, 1, 255, 240, 255, 252, 249>>

\* what one read of handle_client can deliver: nothing, two commands, a full
\* buffer, and two reads just short of a full buffer
ClientReads ==
    {<<>>, COMMAND_IAC_DO_GA, <<255, 251, 1>>,
     Letters(CLIENT_BUFFER_LEN - 4), Letters(CLIENT_BUFFER_LEN - 3),
     Letters(CLIENT_BUFFER_LEN)}

\* format!("{}", n) as bytes
RECURSIVE Decimal(_)
Decimal(n) ==
    IF n < 10 THEN <<48 + n>> ELSE Decimal(n \div 10) \o <<48 + (n % 10)>>

\* handle_command: the bytes it writes, if any
handle_command(command) ==
    IF contains_sequence(command, COMMAND_IAC_DO_GA)
    THEN Some(COMMAND_IAC_WONT_GA)
    ELSE None

\* handle_content: the bytes it writes, "You [id] sent: " and the content
handle_content(content, connection_id) ==
    Some(<<89, 111, 117, 32, 91>> \o Decimal(connection_id)
         \o <<93, 32, 115, 101, 110, 116, 58, 32>> \o content)

\* the thread main spawns for the connection counted connection_id
client(connection_id) ==
    [pc |-> "handshake", id |-> connection_id, message |-> <<>>,
     response |-> <<>>, last_read |-> None, shutdown |-> FALSE,
     outcome |-> "running"]

\* handshake: write_all returns Ok and the outer loop clears message, or it
\* returns Err
ClientHandshake(i, write_ok) ==
    /\ server = "handle_client"
    /\ units[i].pc = "handshake"
    /\ units' = [units EXCEPT ![i] =
          IF write_ok
          THEN [@ EXCEPT !.pc = "read", !.message = <<>>]
          ELSE [@ EXCEPT !.pc = "done", !.outcome = "Err(write)"]]
    /\ UNCHANGED <<server, sessionVars, matcherVars, op>>

\* the thread after stream.read returned Ok(Len(bytes)): the inner loop's
\* body and, when the loop breaks, the test for an empty message
after_read(unit, bytes, shutdown_ok) ==
    LET message == unit.message \o bytes
        read == [unit EXCEPT !.message = message, !.last_read = Some(Len(bytes))]
    IN  IF Len(bytes) < CLIENT_BUFFER_LEN
        THEN IF message = <<>>
             THEN [read EXCEPT !.pc = "done", !.shutdown = TRUE,
                       !.outcome = IF shutdown_ok THEN "Ok" ELSE "Err(shutdown)"]
             ELSE [read EXCEPT !.pc = "handle"]
        ELSE IF Len(message) > CLIENT_MAX_MESSAGE_SIZE
             THEN [read EXCEPT !.pc = "done", !.shutdown = TRUE,
                       !.outcome = IF shutdown_ok THEN "Err(OutOfMemory)"
                                   ELSE "Err(shutdown)"]
             ELSE read

\* stream.read returns Ok with `bytes` in the buffer
ClientRead(i, bytes, shutdown_ok) ==
    /\ server = "handle_client"
    /\ units[i].pc = "read"
    /\ Len(bytes) <= CLIENT_BUFFER_LEN
    /\ units' = [units EXCEPT ![i] = after_read(@, bytes, shutdown_ok)]
    /\ UNCHANGED <<server, sessionVars, matcherVars, op>>

\* stream.read returns Err
ClientReadFailed(i) ==
    /\ server = "handle_client"
    /\ units[i].pc = "read"
    /\ units' = [units EXCEPT ![i] =
          [@ EXCEPT !.pc = "done", !.last_read = None, !.outcome = "Err(read)"]]
    /\ UNCHANGED <<server, sessionVars, matcherVars, op>>

\* the message goes to handle_command or handle_content, up to its write_all
ClientHandle(i) ==
    /\ server = "handle_client"
    /\ units[i].pc = "handle"
    /\ \E answer \in {IF Head(units[i].message) = CONTROL_CHAR_INTERPRET_AS_COMMAND
                      THEN handle_command(units[i].message)
                      ELSE handle_content(units[i].message, units[i].id)} :
          units' = [units EXCEPT ![i] =
              IF answer.some
              THEN [@ EXCEPT !.pc = "write", !.response = answer.v]
              ELSE [@ EXCEPT !.pc = "read", !.message = <<>>]]
    /\ UNCHANGED <<server, sessionVars, matcherVars, op>>

\* write_all returns Ok, then the outer loop clears message; or it returns Err
ClientWrite(i, write_ok) ==
    /\ server = "handle_client"
    /\ units[i].pc = "write"
    /\ units' = [units EXCEPT ![i] =
          IF write_ok
          THEN [@ EXCEPT !.pc = "read", !.response = <<>>, !.message = <<>>]
          ELSE [@ EXCEPT !.pc = "done", !.response = <<>>,
                         !.outcome = "Err(write)"]]
    /\ UNCHANGED <<server, sessionVars, matcherVars, op>>

InitClient ==
    /\ Holding(create, "create")
    /\ script = <<>>
    /\ arg_haystack = <<>>
    /\ arg_needle = <<>>
    /\ found = FALSE
    /\ server = "handle_client"
    /\ \E connection_id \in {0, 12} : units = <<client(connection_id)>>

ClientHandshakes ==
    \E i \in DOMAIN units : \E write_ok \in BOOLEAN : ClientHandshake(i, write_ok)
ClientReadsBytes ==
    \E i \in DOMAIN units : \E bytes \in ClientReads : \E shutdown_ok \in BOOLEAN :
        ClientRead(i, bytes, shutdown_ok)
ClientReadsFailed == \E i \in DOMAIN units : ClientReadFailed(i)
ClientHandles == \E i \in DOMAIN units : ClientHandle(i)
ClientWrites ==
    \E i \in DOMAIN units : \E write_ok \in BOOLEAN : ClientWrite(i, write_ok)

NextClient ==
    \/ ClientHandshakes
    \/ ClientReadsBytes
    \/ ClientReadsFailed
    \/ ClientHandles
    \/ ClientWrites

\* one thread of the first server
SpecClient == InitClient /\ [][NextClient]_vars

-----------------------------------------------------------------------------
(* Vocabulary of the claims *)

\* the fragments of a log, concatenated in order
RECURSIVE Fragments(_)
Fragments(log) ==
    IF log = <<>> THEN <<>>
    ELSE (IF Head(log).out.some THEN Head(log).out.v ELSE <<>>) \o Fragments(Tail(log))

\* the last call was accept_data
Accepted == op = "accept_data"

\* bytes is IAC SB, a payload without SE, SE
IsSubNegotiation(bytes) ==
    /\ Len(bytes) >= 3
    /\ bytes[1] = 255
    /\ bytes[2] = 250
    /\ bytes[Len(bytes)] = 240
    /\ \A i \in 3..(Len(bytes) - 1) : bytes[i] # 240

\* the lengths of the prefixes of buffer that end with CR, LF
LineEnds(buffer) ==
    {k \in 2..Len(buffer) : buffer[k - 1] = [cp |-> 13] /\ buffer[k] = [cp |-> 10]}

\* the longest prefix of buffer that ends with CR, LF; empty when there is none
LongestLinePrefix(buffer) ==
    IF LineEnds(buffer) = {} THEN <<>>
    ELSE SubSeq(buffer, 1, CHOOSE k \in LineEnds(buffer) :
                               \A j \in LineEnds(buffer) : j <= k)

\* some contiguous slice of h, the empty ones included, equals n
HasSlice(h, n) ==
    \E start \in 0..Len(h) : \E len \in 0..(Len(h) - start) :
        SubSeq(h, start + 1, start + len) = n

-----------------------------------------------------------------------------
(* Claims about the negotiation of options *)

\* C1: a new session answers accept_data([255,253,1]) with exactly
\* [255,251,1], turns echoing on and is Idle again; a following accept_data
\* of one ordinary byte b leaves data = [b] and returns exactly [b].
C1_DoEchoRoundTrip ==
    /\ script = << <<255, 253, 1>> >> =>
          /\ pre = create
          /\ result = Some(<<255, 251, 1>>)
          /\ is_echoing = TRUE
          /\ state = "Idle"
    /\ \A b \in Bytes :
          (IsOrdinary(b) /\ script = << <<255, 253, 1>>, <<b>> >>) =>
              /\ data = <<[cp |-> b]>>
              /\ result = Some(<<b>>)

\* a new session was fed IAC DO ECHO and then the letter 'A'
C1_Witness ==
    /\ script = << <<255, 253, 1>>, <<65>> >>
    /\ pre = [create EXCEPT !.is_echoing = TRUE]
    /\ data = <<[cp |-> 65]>>
    /\ result = Some(<<65>>)

\* C2: an Idle session with echoing on answers accept_data([255,254,1]) with
\* exactly [255,252,1], turns echoing off, keeps data and is Idle again;
\* ordinary bytes fed afterwards (to the Idle, non-echoing session this
\* leaves) are answered with nothing.
C2_DontEchoDisables ==
    /\ (Accepted /\ pre.state = "Idle" /\ pre.is_echoing /\ input = <<255, 254, 1>>) =>
          /\ result = Some(<<255, 252, 1>>)
          /\ is_echoing = FALSE
          /\ data = pre.data
          /\ state = "Idle"
    /\ (/\ Accepted /\ pre.state = "Idle" /\ ~pre.is_echoing
        /\ \A i \in 1..Len(input) : IsOrdinary(input[i])) =>
          /\ result = None
          /\ is_echoing = FALSE
    /\ (/\ Len(script) = 3
        /\ script[1] = <<255, 253, 1>> /\ script[2] = <<255, 254, 1>>
        /\ Len(script[3]) = 1 /\ IsOrdinary(script[3][1])) =>
          /\ result = None
          /\ data = <<[cp |-> script[3][1]]>>

\* echo was enabled, then disabled, then the letter 'A' was fed
C2_Witness ==
    /\ script = << <<255, 253, 1>>, <<255, 254, 1>>, <<65>> >>
    /\ pre = create
    /\ data = <<[cp |-> 65]>>
    /\ result = None

\* C3: in an Idle session accept_data([255,253,o]) with any option o other
\* than 1 returns exactly [255,252,o], ends Idle and leaves data and
\* is_echoing as they were: an unsupported DO is refused, never ignored.
C3_UnsupportedDoRefused ==
    \A o \in U8 \ {1} :
        (Accepted /\ pre.state = "Idle" /\ input = <<255, 253, o>>) =>
            /\ result = Some(<<255, 252, o>>)
            /\ state = "Idle"
            /\ data = pre.data
            /\ is_echoing = pre.is_echoing

\* an echoing Idle session holding text was asked to DO option 99
C3_Witness ==
    /\ Accepted
    /\ input = <<255, 253, 99>>
    /\ pre.state = "Idle" /\ pre.is_echoing /\ pre.data # <<>>
    /\ result = Some(<<255, 252, 99>>)

\* C4: every byte o taken in state CommandDont emits exactly [255,252,o] and
\* leaves the session Idle; is_echoing becomes false when o = 1 and is left
\* as it was for every other o.
C4_DontAlwaysWont ==
    \A i \in 1..Len(dispatched) :
        LET e == dispatched[i]
        IN  e.before.state = "CommandDont" =>
                /\ e.out = Some(<<255, 252, e.next>>)
                /\ e.after.state = "Idle"
                /\ e.after.is_echoing = (IF e.next = 1 THEN FALSE ELSE e.before.is_echoing)

\* an echoing session waiting for the option of a DONT was given option 99
C4_Witness ==
    /\ Accepted
    /\ pre.state = "CommandDont" /\ pre.is_echoing
    /\ input = <<99>>
    /\ result = Some(<<255, 252, 99>>)
    /\ is_echoing /\ state = "Idle"

\* C5: in an Idle session IAC SB, any payload, and the first byte 240 give
\* no response, leave data and is_echoing as they were and end Idle; every
\* byte taken in SubNegotiation (255 and text included) is discarded, and the
\* state stays SubNegotiation until the byte 240.
C5_SubNegotiationDiscarded ==
    /\ (Accepted /\ pre.state = "Idle" /\ IsSubNegotiation(input)) =>
          /\ result = None
          /\ data = pre.data
          /\ is_echoing = pre.is_echoing
          /\ state = "Idle"
    /\ \A i \in 1..Len(dispatched) :
          LET e == dispatched[i]
          IN  e.before.state = "SubNegotiation" =>
                  /\ e.out = None
                  /\ e.after.data = e.before.data
                  /\ e.after.is_echoing = e.before.is_echoing
                  /\ e.after.state = (IF e.next = 240 THEN "Idle" ELSE "SubNegotiation")

\* an echoing Idle session holding 'A' was fed [255,250,34,1,255,240]
C5_Witness ==
    /\ Accepted
    /\ input = <<255, 250, 34, 1, 255, 240>>
    /\ pre.state = "Idle" /\ pre.is_echoing /\ pre.data = <<[cp |-> 65]>>
    /\ result = None
    /\ data = pre.data /\ state = "Idle"

-----------------------------------------------------------------------------
(* Claims about the line erase and the sequence matcher *)

\* C6: erase-line (byte 248 in Idle) leaves the longest prefix of the buffer
\* that ends with CR, LF, and the empty buffer when there is none (so for
\* every buffer of length 0 or 1); the erase loop ends for every buffer, so
\* the call can always be made.
C6_EraseLineKeepsLines ==
    /\ (Accepted /\ pre.state = "Idle" /\ input = <<248>>) =>
          /\ data = LongestLinePrefix(pre.data)
          /\ (Len(pre.data) < 2 => data = <<>>)
    /\ ENABLED EraseLine

\* the line erase was applied to ['a','b','c',CR,LF,'d','e','f']
C6_Witness ==
    /\ Accepted /\ input = <<248>>
    /\ pre.data = <<[cp |-> 97], [cp |-> 98], [cp |-> 99], [cp |-> 13], [cp |-> 10],
                    [cp |-> 100], [cp |-> 101], [cp |-> 102]>>
    /\ data = <<[cp |-> 97], [cp |-> 98], [cp |-> 99], [cp |-> 13], [cp |-> 10]>>

\* C7: the line erase is idempotent: a line erase that follows a line erase
\* changes nothing, and a line erase on a buffer that already ends with
\* CR, LF, or is empty, changes nothing.
C7_EraseLineIdempotent ==
    [][(/\ state = "Idle"
        /\ input' = <<248>>
        /\ \/ (Accepted /\ input = <<248>>)
           \/ data = <<>>
           \/ Len(data) \in LineEnds(data))
       => data' = data]_vars

\* a second line erase was applied to what the first left of 'a',CR,LF,'a'
C7_Witness ==
    /\ script = << <<248>>, <<248>> >>
    /\ pre.data = <<[cp |-> 97], [cp |-> 13], [cp |-> 10]>>
    /\ data = pre.data

\* C8: contains_sequence(h, n) is true iff some contiguous slice of h equals
\* n, except that contains_sequence([], []) is false; so an empty n against a
\* non-empty h is true, any n against an empty h is false, and an n longer
\* than h is false.
C8_ContainsIsSliceSearch ==
    op = "contains_sequence" =>
        /\ found = (IF arg_haystack = <<>> /\ arg_needle = <<>>
                    THEN FALSE
                    ELSE HasSlice(arg_haystack, arg_needle))
        /\ (arg_needle = <<>> /\ arg_haystack # <<>> => found = TRUE)
        /\ (arg_haystack = <<>> => found = FALSE)
        /\ (Len(arg_needle) > Len(arg_haystack) => found = FALSE)

\* the needle was found at the end of the haystack
C8_Witness ==
    /\ op = "contains_sequence"
    /\ arg_haystack = <<1, 2, 1>>
    /\ arg_needle = <<2, 1>>
    /\ found = TRUE

-----------------------------------------------------------------------------
(* Claims about accept_data as a whole *)

\* C9: accept_data(bytes) dispatches every byte of bytes once, in order,
\* through the state current at that moment; it ends with the pending stream
\* empty; and it returns the fragments of the bytes concatenated in order, or
\* nothing when that is empty: never an empty response.
C9_AcceptDataDrainsInOrder ==
    Accepted =>
        /\ stream = <<>>
        /\ Len(dispatched) = Len(input)
        /\ \A i \in 1..Len(dispatched) :
              LET e == dispatched[i]
              IN  /\ e.next = input[i]
                  /\ e.before = (IF i = 1 THEN [pre EXCEPT !.stream = input]
                                 ELSE dispatched[i - 1].after)
                  /\ e.after.stream = SubSeq(input, i + 1, Len(input))
                  /\ [session |-> e.after, out |-> e.out]
                        = dispatch([e.before EXCEPT !.stream = Tail(@)], e.next)
        /\ Session = (IF dispatched = <<>> THEN pre
                      ELSE dispatched[Len(dispatched)].after)
        /\ result = (IF Fragments(dispatched) = <<>> THEN None
                     ELSE Some(Fragments(dispatched)))
        /\ result # Some(<<>>)

\* one chunk held a negotiation, a letter and a backspace
C9_Witness ==
    /\ Accepted
    /\ pre = create
    /\ input = <<255, 253, 1, 65, 8>>
    /\ result = Some(<<255, 251, 1, 65, 8, 32, 8>>)
    /\ stream = <<>> /\ data = <<>>

\* the chunks joined into one byte sequence
RECURSIVE Concat(_)
Concat(chunks) ==
    IF chunks = <<>> THEN <<>> ELSE Head(chunks) \o Concat(Tail(chunks))

\* the bytes of a returned response
OutBytes(out) == IF out.some THEN out.v ELSE <<>>

\* successive accept_data calls, one per chunk: the session they end in, the
\* returned responses joined, and the last one returned
RECURSIVE FeedAll(_, _, _)
FeedAll(session, response, chunks) ==
    IF chunks = <<>> THEN [session |-> session, response |-> response, out |-> None]
    ELSE LET r == accept_data(session, Head(chunks))
         IN  IF Len(chunks) = 1
             THEN [session |-> r.session, response |-> response \o OutBytes(r.out),
                   out |-> r.out]
             ELSE FeedAll(r.session, response \o OutBytes(r.out), Tail(chunks))

\* C23: while script holds the chunks fed since create, take as starting
\* session the one after the first k chunks, for every k.  The calls for the
\* remaining chunks end in the session held now and the last of them
\* returned what was returned now; and one accept_data call from that
\* starting session on the remaining chunks joined ends in the same data,
\* state, is_echoing and stream and returns the joined responses of those
\* calls.
C23_ChunkingIndependence ==
    (Accepted /\ Len(script) \in 1..3) =>
        \A k \in 0..(Len(script) - 1) :
            LET start == FeedAll(create, <<>>, SubSeq(script, 1, k)).session
                chunks == SubSeq(script, k + 1, Len(script))
                split == FeedAll(start, <<>>, chunks)
                whole == accept_data(start, Concat(chunks))
            IN  /\ split.session = Session
                /\ split.out = result
                /\ whole.session = Session
                /\ OutBytes(whole.out) = split.response

\* IAC, DO and ECHO came in three reads, one byte each, and the session
\* answered WILL ECHO at the third and echoes
C23_Witness ==
    /\ Accepted
    /\ script = << <<255>>, <<253>>, <<1>> >>
    /\ state = "Idle" /\ is_echoing
    /\ result = Some(<<255, 251, 1>>)

\* C17: every byte taken in state Idle other than 255, 127, 8, 247, 248 and
\* 27 is appended to data as one character, the one with the byte's value;
\* the session stays Idle and keeps is_echoing, and the byte's response is
\* the byte itself when is_echoing is true and nothing when it is false.
C17_IdleTextIsAppended ==
    \A i \in 1..Len(dispatched) :
        LET e == dispatched[i]
        IN  (e.before.state = "Idle" /\ e.next \notin {255, 127, 8, 247, 248, 27}) =>
                /\ e.after.data = e.before.data \o <<[cp |-> e.next]>>
                /\ e.after.state = "Idle"
                /\ e.after.is_echoing = e.before.is_echoing
                /\ e.out = (IF e.before.is_echoing THEN Some(<<e.next>>) ELSE None)

\* an echoing Idle session holding a character took the byte 200
C17_Witness ==
    /\ Accepted
    /\ input = <<200>>
    /\ pre.state = "Idle" /\ pre.is_echoing /\ Len(pre.data) = 1
    /\ data = pre.data \o <<[cp |-> 200]>>
    /\ result = Some(<<200>>)

\* C18: each of the bytes 127, 8 and 247 taken in state Idle removes the last
\* character of data and no other, leaves an empty data empty, keeps the
\* session Idle and is_echoing as it was, and its response is [8, 32, 8] when
\* is_echoing is true and nothing when it is false.
C18_EraseCharacter ==
    \A i \in 1..Len(dispatched) :
        LET e == dispatched[i]
        IN  (e.before.state = "Idle" /\ e.next \in {127, 8, 247}) =>
                /\ e.after.data = SubSeq(e.before.data, 1, Len(e.before.data) - 1)
                /\ e.after.state = "Idle"
                /\ e.after.is_echoing = e.before.is_echoing
                /\ e.out = (IF e.before.is_echoing THEN Some(<<8, 32, 8>>) ELSE None)

\* an echoing Idle session holding 'A' took the letter 'c' and a backspace,
\* and holds 'A' again
C18_Witness ==
    /\ Accepted
    /\ input = <<99, 8>>
    /\ pre.state = "Idle" /\ pre.is_echoing /\ pre.data = <<[cp |-> 65]>>
    /\ dispatched[2].before.data = <<[cp |-> 65], [cp |-> 99]>>
    /\ data = <<[cp |-> 65]>>
    /\ result = Some(<<99, 8, 32, 8>>)

\* the states a call went through: the one it started in, then the state
\* after each byte
StatesOf(log) ==
    [k \in 0..Len(log) |-> IF k = 0 THEN log[1].before.state ELSE log[k].after.state]

\* the five states a verb leads to
VerbStates ==
    {"CommandWill", "CommandWont", "CommandDo", "CommandDont", "SubNegotiation"}

\* C19: every byte taken in any state leaves the session in one of the
\* eight states.  A byte taken in state Command gives no response and leaves
\* data and is_echoing alone; 251, 252, 253, 254 and 250 lead to CommandWill,
\* CommandWont, CommandDo, CommandDont and SubNegotiation, and every other
\* byte leaves the session in Command.  So between a byte that finds the
\* session in Command and a later byte that leaves it Idle, some byte has
\* left it in one of those five states.
C19_CommandLeftOnlyByVerb ==
    /\ \A i \in 1..Len(dispatched) :
          LET e == dispatched[i]
          IN  /\ e.after.state \in TelnetStates
              /\ e.before.state = "Command" =>
                    /\ e.out = None
                    /\ e.after.data = e.before.data
                    /\ e.after.is_echoing = e.before.is_echoing
                    /\ e.after.state =
                          (CASE e.next = 251 -> "CommandWill"
                             [] e.next = 252 -> "CommandWont"
                             [] e.next = 253 -> "CommandDo"
                             [] e.next = 254 -> "CommandDont"
                             [] e.next = 250 -> "SubNegotiation"
                             [] OTHER -> "Command")
    /\ dispatched # <<>> =>
          /\ StatesOf(dispatched)[0] = pre.state
          /\ StatesOf(dispatched)[Len(dispatched)] = state
          /\ \A k \in 1..(Len(dispatched) - 1) :
                dispatched[k + 1].before.state = dispatched[k].after.state
          /\ \A a \in 0..Len(dispatched) : \A b \in 0..Len(dispatched) :
                (/\ a < b
                 /\ StatesOf(dispatched)[a] = "Command"
                 /\ StatesOf(dispatched)[b] = "Idle") =>
                    \E c \in (a + 1)..(b - 1) : StatesOf(dispatched)[c] \in VerbStates

\* a session in Command took IAC, which left it in Command, then DO and an
\* option, and is Idle
C19_Witness ==
    /\ Accepted
    /\ pre.state = "Command"
    /\ input = <<255, 253, 99>>
    /\ StatesOf(dispatched) = [k \in 0..3 |->
          IF k \in {0, 1} THEN "Command" ELSE IF k = 2 THEN "CommandDo" ELSE "Idle"]
    /\ state = "Idle"

\* C20: a byte taken in state CommandWill or CommandWont, whatever its
\* value, leaves the session Idle, gives no response and leaves data and
\* is_echoing as they were.
C20_WillWontIgnored ==
    \A i \in 1..Len(dispatched) :
        LET e == dispatched[i]
        IN  e.before.state \in {"CommandWill", "CommandWont"} =>
                /\ e.after.state = "Idle"
                /\ e.out = None
                /\ e.after.data = e.before.data
                /\ e.after.is_echoing = e.before.is_echoing

\* a session that does not echo took IAC WILL ECHO after an escape sequence
\* and still does not echo
C20_Witness ==
    /\ Accepted
    /\ input = <<27, 91, 65, 255, 251, 1>>
    /\ pre.state = "Idle" /\ ~pre.is_echoing /\ pre.data # <<>>
    /\ dispatched[6].before.state = "CommandWill" /\ dispatched[6].next = 1
    /\ dispatched[6].out = None
    /\ state = "Idle" /\ ~is_echoing /\ data = pre.data

\* the bytes A B C D E F G H J K S T f m i n s u h l
Terminators ==
    {65, 66, 67, 68, 69, 70, 71, 72, 74, 75, 83, 84,
     102, 109, 105, 110, 115, 117, 104, 108}

\* C21: byte 27 taken in state Idle leads to AnsiEscapeSequence.  A byte taken
\* in AnsiEscapeSequence that is none of the 20 terminators changes nothing
\* and has no response; a terminator leads to Idle and its response is
\* exactly [7].  None of these bytes changes data or is_echoing, and none is
\* echoed, whether or not the session echoes.
C21_EscapeSequenceSwallowed ==
    /\ Cardinality(Terminators) = 20
    /\ \A i \in 1..Len(dispatched) :
          LET e == dispatched[i]
          IN  /\ (e.before.state = "Idle" /\ e.next = 27) =>
                    /\ e.after.state = "AnsiEscapeSequence"
                    /\ e.out = None
                    /\ e.after.data = e.before.data
                    /\ e.after.is_echoing = e.before.is_echoing
              /\ e.before.state = "AnsiEscapeSequence" =>
                    /\ e.after.data = e.before.data
                    /\ e.after.is_echoing = e.before.is_echoing
                    /\ e.after.state =
                          (IF e.next \in Terminators THEN "Idle" ELSE "AnsiEscapeSequence")
                    /\ e.out = (IF e.next \in Terminators THEN Some(<<7>>) ELSE None)

\* an echoing Idle session holding text took ESC [ A and then a command: the
\* bracket was discarded, the A rang the bell, and data is what it was
C21_Witness ==
    /\ Accepted
    /\ input = <<27, 91, 65, 255, 251, 1>>
    /\ pre.state = "Idle" /\ pre.is_echoing /\ pre.data # <<>>
    /\ dispatched[1].after.state = "AnsiEscapeSequence"
    /\ dispatched[2].after.state = "AnsiEscapeSequence" /\ dispatched[2].out = None
    /\ dispatched[3].after.state = "Idle" /\ dispatched[3].out = Some(<<7>>)
    /\ result = Some(<<7>>)
    /\ data = pre.data

\* the six byte values update_session_idle does not append
ControlBytes == {255, 127, 8, 247, 248, 27}

\* buffer is a prefix of the buffer `of`
IsPrefix(buffer, of) ==
    Len(buffer) <= Len(of) /\ buffer = SubSeq(of, 1, Len(buffer))

\* C22: data never holds a character whose value is 255, 127, 8, 247, 248 or
\* 27: every character of data was already in data before the call or is a
\* byte outside those six that the call took in state Idle.  A byte taken in
\* any other state leaves data as it was, and a byte taken in Idle either
\* appends itself (when it is outside the six), removes the last character
\* (127, 8, 247), cuts data back to a prefix (248), or leaves data as it was
\* (255, 27).
C22_DataHoldsOnlyIdleText ==
    /\ \A k \in 1..Len(data) :
          /\ data[k].cp \notin ControlBytes
          /\ \/ \E j \in 1..Len(pre.data) : data[k] = pre.data[j]
             \/ \E i \in 1..Len(dispatched) :
                   /\ dispatched[i].before.state = "Idle"
                   /\ dispatched[i].next \notin ControlBytes
                   /\ data[k] = [cp |-> dispatched[i].next]
    /\ \A i \in 1..Len(dispatched) :
          LET e == dispatched[i]
          IN  /\ e.before.state # "Idle" => e.after.data = e.before.data
              /\ e.before.state = "Idle" =>
                    e.after.data =
                        (CASE e.next \in {127, 8, 247} ->
                                  SubSeq(e.before.data, 1, Len(e.before.data) - 1)
                           [] e.next = 248 -> e.after.data
                           [] e.next \in {255, 27} -> e.before.data
                           [] OTHER -> e.before.data \o <<[cp |-> e.next]>>)
              /\ (e.before.state = "Idle" /\ e.next = 248) =>
                    IsPrefix(e.after.data, e.before.data)

\* an Idle session holding text took IAC DO ECHO, the letter A and a
\* backspace: the letter came and went, the other four bytes left data alone
C22_Witness ==
    /\ Accepted
    /\ input = <<255, 253, 1, 65, 8>>
    /\ pre.state = "Idle" /\ pre.data # <<>>
    /\ dispatched[3].after.data = pre.data
    /\ dispatched[4].after.data = pre.data \o <<[cp |-> 65]>>
    /\ data = pre.data

\* C24: a new session does not echo.  A byte changes is_echoing only when it
\* is 1 and is taken in state CommandDo, which sets it, or in state
\* CommandDont, which resets it; every other byte in every state leaves it as
\* it was, and so does clear_data_buffer.  Byte 248 taken in Idle has no
\* response, whether or not the session echoes.
C24_EchoFlagFrame ==
    /\ create.is_echoing = FALSE
    /\ clear_data_buffer(Session).is_echoing = is_echoing
    /\ \A i \in 1..Len(dispatched) :
          LET e == dispatched[i]
          IN  /\ e.after.is_echoing =
                    (CASE e.before.state = "CommandDo" /\ e.next = 1 -> TRUE
                       [] e.before.state = "CommandDont" /\ e.next = 1 -> FALSE
                       [] OTHER -> e.before.is_echoing)
              /\ (e.before.state = "Idle" /\ e.next = 248) =>
                    /\ e.out = None
                    /\ e.after.state = "Idle"

\* an echoing Idle session holding text took the line erase: no response,
\* still echoing, the text gone
C24_Witness ==
    /\ Accepted
    /\ input = <<248>>
    /\ pre.state = "Idle" /\ pre.is_echoing /\ pre.data = <<[cp |-> 65]>>
    /\ result = None
    /\ is_echoing /\ data = <<>>

\* C16: a call of clear_data_buffer leaves get_data_buffer empty and leaves
\* state, is_echoing and stream as they were; and an accept_data call right
\* after the clear answers, byte for byte, what it would have answered to the
\* session before the clear, and ends with the same state, is_echoing and
\* stream (pre holds the session before the clear).
C16_ClearKeepsTheParser ==
    [][/\ op' = "clear_data_buffer" =>
              /\ data' = <<>>
              /\ state' = state
              /\ is_echoing' = is_echoing
              /\ stream' = stream
              /\ pre' = Session
       /\ (op = "clear_data_buffer" /\ op' = "accept_data") =>
              LET without == accept_data(pre, input')
              IN  /\ result' = without.out
                  /\ state' = without.session.state
                  /\ is_echoing' = without.session.is_echoing
                  /\ stream' = without.session.stream
                  /\ Len(dispatched') = Len(without.log)
                  /\ \A k \in 1..Len(dispatched') :
                        /\ dispatched'[k].next = without.log[k].next
                        /\ dispatched'[k].out = without.log[k].out
                        /\ dispatched'[k].before.state = without.log[k].before.state
                        /\ dispatched'[k].after.state = without.log[k].after.state
                        /\ dispatched'[k].after.is_echoing
                              = without.log[k].after.is_echoing]_vars

\* the buffer was cleared while it held a character, in the middle of a
\* command and with echo on
C16_Witness ==
    /\ op = "clear_data_buffer"
    /\ pre.data # <<>> /\ pre.state = "CommandDo" /\ pre.is_echoing
    /\ data = <<>> /\ state = "CommandDo" /\ is_echoing

-----------------------------------------------------------------------------
(* Claims about the connection threads *)

\* C10: a thread whose read returns zero bytes shuts the connection down and
\* ends: from then on it calls the handler no more and writes no more; when
\* that read was its first, it has never called the handler nor written.
C10_ZeroReadEndsUnit ==
    [][\A i \in DOMAIN units' :
          units'[i].last_read = Some(0) =>
              /\ units'[i].pc = "done"
              /\ units'[i].shutdown = TRUE
              /\ (units'[i].reads = 1 =>
                      /\ units'[i].handled = 0
                      /\ units'[i].writes = 0
                      /\ units'[i].written = <<>>)
              /\ (i \in DOMAIN units =>
                      /\ units'[i].handled = units[i].handled
                      /\ units'[i].writes = units[i].writes
                      /\ units'[i].written = units[i].written)]_vars

\* one thread ended on a zero-byte first read while another went on to write
C10_Witness ==
    /\ Len(units) = 2
    /\ units[1].last_read = Some(0) /\ units[1].reads = 1
    /\ units[1].pc = "done" /\ units[1].shutdown
    /\ units[1].handled = 0 /\ units[1].writes = 0
    /\ units[2].writes = 1 /\ units[2].pc = "read"

\* C12: in every thread the steps come in the order read, handler, write.
\* A read is issued only when no chunk and no response is pending; the
\* handler is called only on the chunk of the last read, which is not empty
\* and at most 4096 bytes long, and only when no response is pending; a
\* response the handler produced is written whole before the thread reads
\* again, or the thread ends.
C12_ReadAcceptWriteInOrder ==
    [][\A i \in DOMAIN units :
          LET u == units[i]
              v == units'[i]
          IN  /\ v.reads # u.reads =>
                    /\ u.pc = "read"
                    /\ u.chunk = <<>>
                    /\ u.response = <<>>
              /\ v.handled # u.handled =>
                    /\ u.pc = "handle"
                    /\ u.chunk # <<>>
                    /\ Len(u.chunk) <= MAX_MESSAGE_SIZE
                    /\ u.last_read = Some(Len(u.chunk))
                    /\ u.response = <<>>
                    /\ v.handled = u.handled + 1
                    /\ v.pc = (IF v.response # <<>> THEN "write" ELSE "read")
              /\ (u.pc = "write" /\ v # u) =>
                    /\ u.response # <<>>
                    /\ v.reads = u.reads
                    /\ v.handled = u.handled
                    /\ \/ v.pc = "read" /\ v.written = u.written \o u.response
                       \/ v.pc = "done" /\ v.written = u.written]_vars

\* a thread read, handled and answered two chunks, one after the other
C12_Witness ==
    \E i \in DOMAIN units :
        /\ units[i].reads = 2 /\ units[i].handled = 2 /\ units[i].writes = 2
        /\ units[i].pc = "read"
        /\ Len(units[i].written) >= 2

\* some step of thread j other than the call of main's handler
UnitSteps(j) ==
    \/ UnitStart(j)
    \/ UnitReadClosed(j)
    \/ UnitReadFailed(j)
    \/ \E bytes \in ReadChunks : UnitReadBytes(j, bytes)
    \/ \E answer \in HandlerAnswers : UnitAccept(j, answer)
    \/ UnitWrite(j)
    \/ UnitWriteFailed(j)

\* thread j is about to call main's handler, which UnitRespond lets it do
\* whatever the other threads are doing
UnitAtHandler(j) == server = "main" /\ units[j].pc = "handle"

\* thread j is not spawned yet, has returned, or waits for a read beyond the
\* reads modelled
UnitAtRest(j) ==
    \/ units[j].pc = "arrived"
    \/ units[j].pc = "done"
    \/ units[j].pc = "read" /\ units[j].reads >= MaxReads

\* C13: a read that returns Err, or a write_all that returns Err, ends the
\* thread it happened in, at once and without a shutdown or a second attempt,
\* and changes no other thread; a thread that ended never moves again; and
\* whatever happened to other threads, every thread that has not ended can
\* take its next step and the listener can accept the next connection.
C13_ErrorEndsOnlyItsUnit ==
    [][/\ \A i \in DOMAIN units :
            LET u == units[i]
                v == units'[i]
                read_err == v.reads = u.reads + 1 /\ v.last_read = None
                write_err == v.writes = u.writes + 1 /\ v.written = u.written
            IN  /\ (read_err \/ write_err) =>
                      /\ v.pc = "done"
                      /\ v.shutdown = u.shutdown
                      /\ v.handled = u.handled
                      /\ read_err => v.writes = u.writes
                      /\ write_err => v.reads = u.reads
                      /\ Len(units') = Len(units)
                      /\ \A j \in DOMAIN units : j # i => units'[j] = units[j]
                /\ u.pc = "done" => v = u
       /\ \A j \in DOMAIN units :
            ~UnitAtRest(j) => UnitAtHandler(j) \/ ENABLED UnitSteps(j)
       /\ (\E j \in DOMAIN units : units[j].pc = "arrived") => ENABLED Accepts
       /\ Len(units) < MaxConnections => ENABLED Arrives]_vars

\* the first thread ended on a read error and the second on a write error,
\* each after the other had started, and the listener accepted both
C13_Witness ==
    /\ Len(units) = 2
    /\ units[1].pc = "done" /\ units[1].last_read = None /\ units[1].reads = 2
    /\ units[1].writes = 1 /\ ~units[1].shutdown
    /\ units[2].pc = "done" /\ units[2].writes = 2 /\ Len(units[2].written) = 1
    /\ ~units[2].shutdown

\* a thread of main that read the chunks `chunks` from a fresh session, alone:
\* its session, all it wrote, and its last response
RECURSIVE Alone(_, _, _)
Alone(telnet_session, written, chunks) ==
    IF chunks = <<>>
    THEN [session |-> telnet_session, written |-> written, response |-> <<>>]
    ELSE LET r == main_respond(telnet_session, Head(chunks))
         IN  IF Len(chunks) = 1
             THEN [session |-> r.session, written |-> written \o r.response,
                   response |-> r.response]
             ELSE Alone(r.session, written \o r.response, Tail(chunks))

\* C14: every thread of main has a session of its own, made by create when
\* the thread starts, and whatever the other threads read, and however the
\* threads interleave, its session and the bytes it wrote are those of a
\* thread that read the same chunks alone.
C14_UnitsAreIsolated ==
    server = "main" =>
        \A i \in DOMAIN units :
            LET u == units[i]
                a == Alone(create, <<>>, SubSeq(u.received, 1, u.handled))
                before == SubSeq(a.written, 1, Len(a.written) - Len(a.response))
            IN  /\ u.pc \in {"arrived", "spawned"} => u.received = <<>>
                /\ (u.pc \notin {"arrived", "spawned"} /\ u.ok) =>
                      u.handler = a.session
                /\ u.pc \in {"read", "handle"} => u.written = a.written
                /\ u.pc = "write" => u.response = a.response /\ u.written = before
                /\ u.pc = "done" => u.written \in {a.written, before}

\* two threads of main that read different chunks, the second one in between
\* the reads of the first, and hold different sessions
C14_Witness ==
    /\ server = "main"
    /\ Len(units) = 2
    /\ units[1].received = <<<<65>>, <<65>>>> /\ units[1].handled = 2
    /\ units[2].received = <<<<CHAR_IAC, CHAR_DO, CHAR_ECHO, 10>>>>
    /\ units[2].handled = 1 /\ units[2].writes = 1
    /\ units[1].handler.is_echoing = FALSE /\ units[2].handler.is_echoing = TRUE
    /\ Len(units[1].handler.data) = 2 /\ units[1].written = <<>>

\* C15: a connection that has arrived is eventually accepted and its thread
\* eventually runs (it is past its start: reading, or further), even when
\* every other thread waits for ever in a read that never returns.
C15_ListenerNeverBlocked ==
    \A i \in 1..MaxConnections :
        (i \in DOMAIN units /\ units[i].pc = "arrived")
            ~> (i \in DOMAIN units /\ units[i].pc \notin {"arrived", "spawned"})

\* the first thread still waits in its first read, and the connection that
\* arrived after it has a thread that read a chunk and answered it
C15_Witness ==
    /\ Len(units) = 2
    /\ units[1].pc = "read" /\ units[1].reads = 0
    /\ units[2].pc = "read" /\ units[2].handled = 1 /\ units[2].writes = 1

-----------------------------------------------------------------------------
(* Claims about the thread of the first server *)

\* C11: a thread whose message has grown past 4096 bytes has shut its
\* stream down and returned an error (the overflow, or the Err of the
\* shutdown itself); it is not in, or on its way to, handle_command or
\* handle_content with that message.
C11_OversizedMessageAborts ==
    \A i \in DOMAIN units :
        Len(units[i].message) > CLIENT_MAX_MESSAGE_SIZE =>
            /\ units[i].pc = "done"
            /\ units[i].shutdown
            /\ units[i].outcome \in {"Err(OutOfMemory)", "Err(shutdown)"}

====
